---------------------------- MODULE Spec2Model ----------------------------
(***************************************************************************)
(* Model of utils/gephi_restructure.py: a taxonomy (macro-topic, topic,    *)
(* sub-topic) is pulled from PostgreSQL, flattened into a node table and   *)
(* an edge table, and pushed back into GephiNode / GephiEdges.             *)
(*                                                                         *)
(* Three specifications share the variables:                               *)
(*   Spec       the extraction side: db_connect, get_db_tables,            *)
(*              get_db_version, db_pull, gephi_restructure on the pulled   *)
(*              table, db_rollback;                                        *)
(*   SpecGraph  gephi_restructure on every bounded taxonomy table, then    *)
(*              db_push of what it returned, then db_rollback;             *)
(*   SpecPush   db_push on every bounded node table and edge table, then   *)
(*              db_rollback.                                               *)
(***************************************************************************)
EXTENDS Integers, Sequences, FiniteSets

VARIABLES
    qnaSubtopic,   \* source table qnaSubtopic(id, name, topicid, Status)
    Topic,         \* source table Topic(id, name, macrotopicid, Status)
    Macrotopic,    \* source table Macrotopic(id, name, Status)
    GephiNode,     \* committed rows of the destination table GephiNode
    GephiEdges,    \* committed rows of the destination table GephiEdges
    txn,           \* rows written in the open transaction, not yet committed
    conn,          \* the caller's connection handle: None or a connection
    df,            \* the caller's taxonomy table: Unset, None or a DataFrame
    nodes_df,      \* node table (gephi_restructure's first result / db_push input)
    edges_df,      \* edge table (gephi_restructure's second result / db_push input)
    op,            \* name of the last function called
    ret,           \* what that call returned (Unset when it raised)
    exc,           \* the exception that call let propagate, or NoException
    log,           \* the database statements that call issued, with outcomes
    pandas         \* the pandas release the interpreter imports (the code pins none)

vars == <<qnaSubtopic, Topic, Macrotopic, GephiNode, GephiEdges, txn, conn,
          df, nodes_df, edges_df, op, ret, exc, log, pandas>>

\* what no function of the module changes: the source tables and the installed pandas
envvars == <<qnaSubtopic, Topic, Macrotopic, pandas>>

---------------------------------------------------------------------------
(* Bounds *)

MaxRows == 2        \* rows of a taxonomy table given to gephi_restructure
MaxPushRows == 2    \* rows of a node table / edge table given to db_push
MaxSubRows == 2     \* rows of the source table qnaSubtopic

---------------------------------------------------------------------------
(* Python values *)

None == [kind |-> "None"]
Unset == [kind |-> "unset"]
Bool(b) == [kind |-> "bool", val |-> b]
Connection == [kind |-> "connection"]
NoException == "none"

DataFrame(cols, rows) == [kind |-> "DataFrame", columns |-> cols, rows |-> rows]

IsDataFrame(x) == x.kind = "DataFrame"

BoundedSeq(S, n) == UNION {[1..k -> S] : k \in 0..n}

Range(s) == {s[i] : i \in DOMAIN s}

\* every order in which the elements of a finite set can be listed
Perms(S) == {f \in [1..Cardinality(S) -> S] : \A x \in S : \E i \in DOMAIN f : f[i] = x}

---------------------------------------------------------------------------
(* gephi_restructure *)

SubNames == {"A", "D"}
TopicNames == {"B", "A"}
MacroNames == {"C", "B"}

TaxonomyColumns == <<"SubTopic", "Topic", "MacroTopic">>

TaxonomyRows == [SubTopic : SubNames, Topic : TopicNames, MacroTopic : MacroNames]

\* df[c] of pandas: the values of column c, or a KeyError when df has no such column
HasColumn(d, c) == c \in Range(d.columns)

ColumnSet(d, c) == {d.rows[i][c] : i \in DOMAIN d.rows}

\* mutant of unique_nodes: the MacroTopic column is left out of the union
unique_nodes_without_macro(d) ==
    ColumnSet(d, "SubTopic") \cup ColumnSet(d, "Topic")

unique_nodes(d) ==
    ColumnSet(d, "SubTopic") \cup ColumnSet(d, "Topic") \cup ColumnSet(d, "MacroTopic")

Edge(s, t) == [Source |-> s, Target |-> t, Type |-> "undirected"]

\* mutant of EdgesLoop: an edge already in the table is not appended again
RECURSIVE EdgesLoopDedup(_, _, _)
EdgesLoopDedup(rows, i, acc) ==
    IF i > Len(rows) THEN acc
    ELSE LET e1 == Edge(rows[i]["MacroTopic"], rows[i]["Topic"])
             e2 == Edge(rows[i]["Topic"], rows[i]["SubTopic"])
             a1 == IF e1 \in Range(acc) THEN acc ELSE Append(acc, e1)
             a2 == IF e2 \in Range(a1) THEN a1 ELSE Append(a1, e2)
         IN EdgesLoopDedup(rows, i + 1, a2)

\* mutant of EdgesLoop: the Topic->SubTopic edge is appended before MacroTopic->Topic
RECURSIVE EdgesLoopSwapped(_, _, _)
EdgesLoopSwapped(rows, i, acc) ==
    IF i > Len(rows) THEN acc
    ELSE EdgesLoopSwapped(rows, i + 1,
             Append(Append(acc, Edge(rows[i]["Topic"], rows[i]["SubTopic"])),
                    Edge(rows[i]["MacroTopic"], rows[i]["Topic"])))

\* the loop over df.iterrows(): two appends per row, in row order
RECURSIVE EdgesLoop(_, _, _)
EdgesLoop(rows, i, acc) ==
    IF i > Len(rows) THEN acc
    ELSE EdgesLoop(rows, i + 1,
             Append(Append(acc, Edge(rows[i]["MacroTopic"], rows[i]["Topic"])),
                    Edge(rows[i]["Topic"], rows[i]["SubTopic"])))

\* mutant of NodeOrders: the three columns are concatenated without building a set
NodeOrdersNoDedup(d) ==
    {[k \in 1..(3 * Len(d.rows)) |->
        d.rows[((k - 1) % Len(d.rows)) + 1][TaxonomyColumns[((k - 1) \div Len(d.rows)) + 1]]]}

\* list(unique_nodes): a set is listed in an order the code does not control
NodeOrders(d) == Perms(unique_nodes(d))

NodeRows(order) == [i \in DOMAIN order |-> [nodeLabel |-> order[i]]]

\* import pandas: the release is whatever is installed. DataFrame.append, which the
\* edge loop calls, exists up to pandas 1.5 and was removed in pandas 2.0
PandasReleases == {"pandas<2.0", "pandas>=2.0"}

DataFrameHasAppend(release) == release = "pandas<2.0"

\* gephi_restructure(df) under a pandas release, with the order in which the node set
\* was listed: df[column] raises KeyError for a missing column; the first
\* edges_df.append raises AttributeError when DataFrame has no append
gephi_restructure(d, order, release) ==
    IF \E c \in Range(TaxonomyColumns) : ~HasColumn(d, c)
    THEN [exc |-> "KeyError", nodes |-> Unset, edges |-> Unset]
    ELSE IF Len(d.rows) >= 1 /\ ~DataFrameHasAppend(release)
    THEN [exc |-> "AttributeError", nodes |-> Unset, edges |-> Unset]
    ELSE [exc |-> NoException,
          nodes |-> DataFrame(<<"nodeLabel">>, NodeRows(order)),
          edges |-> DataFrame(<<"Source", "Target", "Type">>,
                              EdgesLoop(d.rows, 1, <<>>))]

GephiRestructure ==
    /\ IsDataFrame(df)
    /\ op \in {"start", "db_pull"}
    /\ \E order \in (IF \A c \in Range(TaxonomyColumns) : HasColumn(df, c)
                     THEN NodeOrders(df) ELSE {<<>>}) :
          LET r == gephi_restructure(df, order, pandas) IN
          /\ nodes_df' = r.nodes
          /\ edges_df' = r.edges
          /\ exc' = r.exc
          /\ ret' = IF r.exc = NoException
                    THEN [kind |-> "tuple", nodes |-> r.nodes, edges |-> r.edges]
                    ELSE Unset
    /\ op' = "gephi_restructure"
    /\ log' = <<>>
    /\ UNCHANGED <<envvars, GephiNode, GephiEdges, txn, conn, df>>

---------------------------------------------------------------------------
(* db_push and db_rollback *)

NodePlaceholders == 1    \* "INSERT INTO GephiNode (nodeLabel) VALUES (%s);"
EdgePlaceholders == 2    \* "INSERT INTO GephiEdges (source, target, type) VALUES (%s, %s);"

NodeInsert(row) ==
    [stmt |-> "INSERT INTO GephiNode", placeholders |-> NodePlaceholders,
     params |-> <<row["nodeLabel"]>>]

EdgeInsert(row) ==
    [stmt |-> "INSERT INTO GephiEdges", placeholders |-> EdgePlaceholders,
     params |-> <<row["Source"], row["Target"], row["Type"]>>]

Commit == [stmt |-> "COMMIT", placeholders |-> 0, params |-> <<>>]

\* mutant of PushPlan: the edge loop runs before the node loop
PushPlanEdgesFirst(nodes, edges) ==
    [i \in 1..Len(edges.rows) |-> EdgeInsert(edges.rows[i])]
    \o [i \in 1..Len(nodes.rows) |-> NodeInsert(nodes.rows[i])]
    \o <<Commit>>

\* the statements db_push means to issue, in the order of its two loops and the commit
PushPlan(nodes, edges) ==
    [i \in 1..Len(nodes.rows) |-> NodeInsert(nodes.rows[i])]
    \o [i \in 1..Len(edges.rows) |-> EdgeInsert(edges.rows[i])]
    \o <<Commit>>

\* cur.execute(template, params) / conn.commit(): psycopg2 merges the parameters into
\* the template before anything is sent, and raises TypeError ("not all arguments
\* converted during string formatting") when they do not match the placeholders;
\* a statement the server rejects raises psycopg2.Error
execute(s, dbOk) ==
    IF s.placeholders # Len(s.params) THEN "TypeError"
    ELSE IF dbOk THEN "ok"
    ELSE "psycopg2.Error"

Logged(s, outcome) == [stmt |-> s.stmt, params |-> s.params, outcome |-> outcome]

\* the body of the try block: statements are issued one by one until one raises
RECURSIVE PushLoop(_, _, _, _)
PushLoop(plan, i, failAt, acc) ==
    IF i > Len(plan) THEN acc
    ELSE LET o == execute(plan[i], i # failAt) IN
         IF o = "ok" THEN PushLoop(plan, i + 1, failAt, Append(acc, Logged(plan[i], o)))
         ELSE Append(acc, Logged(plan[i], o))

LastOutcome(l) == l[Len(l)].outcome

\* mutant of push_return: the except clause returns True as well
push_return_true_on_error(l) ==
    CASE LastOutcome(l) \in {"ok", "psycopg2.Error"} -> Bool(TRUE)
      [] OTHER -> Unset

\* the value db_push returns: True after the commit, False from the except clause,
\* nothing when the exception is not a psycopg2.Error
push_return(l) ==
    CASE LastOutcome(l) = "ok" -> Bool(TRUE)
      [] LastOutcome(l) = "psycopg2.Error" -> Bool(FALSE)
      [] OTHER -> Unset

push_exception(l) ==
    IF LastOutcome(l) \in {"ok", "psycopg2.Error"} THEN NoException ELSE LastOutcome(l)

\* db_push(conn, df_nodes, df_edges) when the server rejects statement number failAt
\* (0: it rejects none)
db_push(nodes, edges, failAt) ==
    LET l == PushLoop(PushPlan(nodes, edges), 1, failAt, <<>>) IN
    [ret |-> push_return(l), exc |-> push_exception(l), log |-> l]

Written(l, table) ==
    SelectSeq(l, LAMBDA e : e.stmt = table /\ e.outcome = "ok")

Committed(l) == \E i \in DOMAIN l : l[i].stmt = "COMMIT" /\ l[i].outcome = "ok"

ParamsOf(l) == [i \in DOMAIN l |-> l[i].params]

DbPush ==
    /\ conn = Connection
    /\ IsDataFrame(nodes_df) /\ IsDataFrame(edges_df)
    /\ op \in {"start", "gephi_restructure"}
    /\ \E failAt \in 0..(Len(nodes_df.rows) + Len(edges_df.rows) + 1) :
          LET r == db_push(nodes_df, edges_df, failAt)
              n == txn.nodes \o ParamsOf(Written(r.log, "INSERT INTO GephiNode"))
              e == txn.edges \o ParamsOf(Written(r.log, "INSERT INTO GephiEdges"))
          IN
          /\ ret' = r.ret
          /\ exc' = r.exc
          /\ log' = r.log
          /\ IF Committed(r.log)
             THEN /\ GephiNode' = GephiNode \o n
                  /\ GephiEdges' = GephiEdges \o e
                  /\ txn' = [nodes |-> <<>>, edges |-> <<>>]
             ELSE /\ txn' = [nodes |-> n, edges |-> e]
                  /\ UNCHANGED <<GephiNode, GephiEdges>>
    /\ op' = "db_push"
    /\ UNCHANGED <<envvars, conn, df, nodes_df, edges_df>>

\* mutant of db_rollback: no except clause, the psycopg2.Error propagates
db_rollback_raises(dbOk) ==
    [ret |-> IF dbOk THEN None ELSE Unset,
     exc |-> IF dbOk THEN NoException ELSE "psycopg2.Error",
     log |-> <<[stmt |-> "ROLLBACK", params |-> <<>>,
                outcome |-> IF dbOk THEN "ok" ELSE "psycopg2.Error"]>>]

\* db_rollback(conn): conn.rollback(), a psycopg2.Error from it is printed, not raised
db_rollback(dbOk) ==
    [ret |-> None, exc |-> NoException,
     log |-> <<[stmt |-> "ROLLBACK", params |-> <<>>,
                outcome |-> IF dbOk THEN "ok" ELSE "psycopg2.Error"]>>]

DbRollback ==
    /\ conn = Connection
    /\ op \notin {"start", "db_rollback"}
    /\ \E dbOk \in BOOLEAN :
          LET r == db_rollback(dbOk) IN
          /\ ret' = r.ret
          /\ exc' = r.exc
          /\ log' = r.log
          /\ txn' = IF LastOutcome(r.log) = "ok" THEN [nodes |-> <<>>, edges |-> <<>>] ELSE txn
    /\ op' = "db_rollback"
    /\ UNCHANGED <<envvars, GephiNode, GephiEdges, conn, df, nodes_df, edges_df>>

---------------------------------------------------------------------------
(* db_connect, get_db_tables, get_db_version, db_pull *)

\* one database call made by a function that catches psycopg2.Error
Call(stmt, dbOk) ==
    <<[stmt |-> stmt, params |-> <<>>, outcome |-> IF dbOk THEN "ok" ELSE "psycopg2.Error"]>>

\* db_connect(db_params): the connection, or None when psycopg2.connect raises
db_connect(dbOk) ==
    [ret |-> IF dbOk THEN Connection ELSE None, exc |-> NoException,
     log |-> Call("connect", dbOk)]

PublicTables == <<"qnasubtopic", "topic", "macrotopic", "gephinode", "gephiedges">>

\* get_db_tables(conn): the table names of schema public, or None when the query fails
get_db_tables(dbOk) ==
    [ret |-> IF dbOk THEN [kind |-> "list", val |-> PublicTables] ELSE None,
     exc |-> NoException,
     log |-> Call("SELECT tablename FROM pg_catalog.pg_tables", dbOk)]

\* get_db_version(conn): the first column of the one row, or None when the query fails
get_db_version(dbOk) ==
    [ret |-> IF dbOk THEN [kind |-> "str", val |-> "PostgreSQL"] ELSE None,
     exc |-> NoException,
     log |-> Call("SELECT version()", dbOk)]

\* mutant of JoinWhere: the WHERE clause does not test t.Status
JoinWhereWithoutTopicStatus(s, t, m) ==
    {x \in (DOMAIN s) \X (DOMAIN t) \X (DOMAIN m) :
        /\ s[x[1]].topicid = t[x[2]].id
        /\ t[x[2]].macrotopicid = m[x[3]].id
        /\ s[x[1]].Status = 0 /\ m[x[3]].Status = 0}

\* FROM qnaSubtopic s JOIN Topic t ON s.topicid = t.id
\*                    JOIN Macrotopic m ON t.macrotopicid = m.id
\* WHERE s.Status = 0 AND t.Status = 0 AND m.Status = 0
\* as the triples of row numbers the query selects
JoinWhere(s, t, m) ==
    {x \in (DOMAIN s) \X (DOMAIN t) \X (DOMAIN m) :
        /\ s[x[1]].topicid = t[x[2]].id
        /\ t[x[2]].macrotopicid = m[x[3]].id
        /\ s[x[1]].Status = 0 /\ t[x[2]].Status = 0 /\ m[x[3]].Status = 0}

\* SELECT s.name, t.name, m.name
Selected(s, t, m, x) == <<s[x[1]].name, t[x[2]].name, m[x[3]].name>>

\* the orders in which cur.fetchall() may return the selected rows (no ORDER BY)
FetchOrders(s, t, m) == Perms(JoinWhere(s, t, m))

\* cur.description: the names of the result columns. The aliases are not quoted:
\* PostgreSQL reports them folded to lower case, a server that keeps the case of
\* identifiers reports them as written
Descriptions == {<<"SubTopic", "Topic", "MacroTopic">>, <<"subtopic", "topic", "macrotopic">>}

\* dict(zip(columns, row))
DictZip(columns, row) == [c \in Range(columns) |-> row[CHOOSE i \in DOMAIN columns : columns[i] = c]]

\* pd.DataFrame(data) of a list of dicts: an empty list gives a table without columns
FrameOfDicts(columns, data) ==
    IF data = <<>> THEN DataFrame(<<>>, <<>>) ELSE DataFrame(columns, data)

\* db_pull(conn): the selected rows in the order fetched, or None when the query fails
db_pull(s, t, m, order, description, dbOk) ==
    IF ~dbOk
    THEN [ret |-> None, exc |-> NoException, log |-> Call("SELECT taxonomy", dbOk)]
    ELSE [ret |-> FrameOfDicts(description,
                     [i \in DOMAIN order |-> DictZip(description, Selected(s, t, m, order[i]))]),
          exc |-> NoException,
          log |-> Call("SELECT taxonomy", dbOk)]

DbConnect ==
    /\ op = "start"
    /\ conn = None
    /\ \E dbOk \in BOOLEAN :
          LET r == db_connect(dbOk) IN
          /\ conn' = r.ret
          /\ ret' = r.ret
          /\ exc' = r.exc
          /\ log' = r.log
    /\ op' = "db_connect"
    /\ UNCHANGED <<envvars, GephiNode, GephiEdges, txn, df, nodes_df, edges_df>>

Diagnostics == {"db_connect", "get_db_tables", "get_db_version"}

GetDbTables ==
    /\ conn = Connection
    /\ op \in Diagnostics
    /\ \E dbOk \in BOOLEAN :
          LET r == get_db_tables(dbOk) IN
          ret' = r.ret /\ exc' = r.exc /\ log' = r.log
    /\ op' = "get_db_tables"
    /\ UNCHANGED <<envvars, GephiNode, GephiEdges, txn, conn, df, nodes_df, edges_df>>

GetDbVersion ==
    /\ conn = Connection
    /\ op \in Diagnostics
    /\ \E dbOk \in BOOLEAN :
          LET r == get_db_version(dbOk) IN
          ret' = r.ret /\ exc' = r.exc /\ log' = r.log
    /\ op' = "get_db_version"
    /\ UNCHANGED <<envvars, GephiNode, GephiEdges, txn, conn, df, nodes_df, edges_df>>

DbPull ==
    /\ conn = Connection
    /\ op \in Diagnostics
    /\ \E dbOk \in BOOLEAN, description \in Descriptions :
       \E order \in FetchOrders(qnaSubtopic, Topic, Macrotopic) :
          LET r == db_pull(qnaSubtopic, Topic, Macrotopic, order, description, dbOk) IN
          /\ df' = r.ret
          /\ ret' = r.ret
          /\ exc' = r.exc
          /\ log' = r.log
    /\ op' = "db_pull"
    /\ UNCHANGED <<envvars, GephiNode, GephiEdges, txn, conn, nodes_df, edges_df>>

---------------------------------------------------------------------------
(* SpecGraph: every bounded taxonomy table through gephi_restructure *)

TaxonomyTables == {DataFrame(TaxonomyColumns, rows) : rows \in BoundedSeq(TaxonomyRows, MaxRows)}

InitGraph ==
    /\ qnaSubtopic = <<>> /\ Topic = <<>> /\ Macrotopic = <<>>
    /\ GephiNode = <<>> /\ GephiEdges = <<>>
    /\ txn = [nodes |-> <<>>, edges |-> <<>>]
    /\ conn = Connection
    /\ df \in TaxonomyTables
    /\ nodes_df = Unset /\ edges_df = Unset
    /\ op = "start" /\ ret = Unset /\ exc = NoException /\ log = <<>>
    /\ pandas \in PandasReleases

NextGraph == GephiRestructure \/ DbPush \/ DbRollback

SpecGraph == InitGraph /\ [][NextGraph]_vars

---------------------------------------------------------------------------
(* SpecPush: every bounded node table and edge table through db_push *)

PushLabels == {"A", "B"}

NodeTables ==
    {DataFrame(<<"nodeLabel">>, rows) : rows \in BoundedSeq([nodeLabel : PushLabels], MaxPushRows)}

EdgeTables ==
    {DataFrame(<<"Source", "Target", "Type">>, rows) :
        rows \in BoundedSeq([Source : PushLabels, Target : PushLabels, Type : {"undirected"}],
                            MaxPushRows)}

InitPush ==
    /\ qnaSubtopic = <<>> /\ Topic = <<>> /\ Macrotopic = <<>>
    /\ GephiNode = <<>> /\ GephiEdges = <<>>
    /\ txn = [nodes |-> <<>>, edges |-> <<>>]
    /\ conn = Connection
    /\ df = Unset
    /\ nodes_df \in NodeTables /\ edges_df \in EdgeTables
    /\ op = "start" /\ ret = Unset /\ exc = NoException /\ log = <<>>
    /\ pandas \in PandasReleases

NextPush == DbPush \/ DbRollback

SpecPush == InitPush /\ [][NextPush]_vars

---------------------------------------------------------------------------
(* Spec: the extraction side, over every bounded content of the source tables *)

StatusValues == {0, 1}
TopicIds == {1, 2}
MacroIds == {1, 2}

SubRowChoices == [name : SubNames, topicid : TopicIds, Status : StatusValues]

\* qnaSubtopic: id is the primary key, here the row number
SubTables ==
    {[i \in DOMAIN rows |-> [id |-> i, name |-> rows[i].name,
                             topicid |-> rows[i].topicid, Status |-> rows[i].Status]] :
        rows \in BoundedSeq(SubRowChoices, MaxSubRows)}

TopicNameOf(id) == IF id = 1 THEN "B" ELSE "A"

TopicRowsOf(id) ==
    {[id |-> id, name |-> TopicNameOf(id), macrotopicid |-> mid, Status |-> st] :
        mid \in MacroIds, st \in StatusValues}

\* Topic: at most one row per id
TopicTables ==
    {<<>>} \cup {<<r>> : r \in TopicRowsOf(1) \cup TopicRowsOf(2)}
           \cup {<<r[1], r[2]>> : r \in TopicRowsOf(1) \X TopicRowsOf(2)}

\* Macrotopic: the row with id 1, when present; a Topic row naming macro-topic 2 dangles
MacroTables ==
    {<<>>} \cup {<<[id |-> 1, name |-> "C", Status |-> st]>> : st \in StatusValues}

Init ==
    /\ qnaSubtopic \in SubTables
    /\ Topic \in TopicTables
    /\ Macrotopic \in MacroTables
    /\ GephiNode = <<>> /\ GephiEdges = <<>>
    /\ txn = [nodes |-> <<>>, edges |-> <<>>]
    /\ conn = None
    /\ df = Unset
    /\ nodes_df = Unset /\ edges_df = Unset
    /\ op = "start" /\ ret = Unset /\ exc = NoException /\ log = <<>>
    /\ pandas \in PandasReleases

Next ==
    \/ DbConnect
    \/ GetDbTables
    \/ GetDbVersion
    \/ DbPull
    \/ GephiRestructure
    \/ DbRollback

Spec == Init /\ [][Next]_vars

---------------------------------------------------------------------------
(* Properties of gephi_restructure, under SpecGraph *)

\* gephi_restructure has returned for the taxonomy table df
Restructured == IsDataFrame(df) /\ IsDataFrame(nodes_df) /\ IsDataFrame(edges_df)

N == Len(df.rows)

NodeLabels == [i \in DOMAIN nodes_df.rows |-> nodes_df.rows[i]["nodeLabel"]]

\* the 3N values of the input table, column by column
InputValues(c) == [i \in DOMAIN df.rows |-> df.rows[i][c]]

AllInputValues == InputValues("SubTopic") \o InputValues("Topic") \o InputValues("MacroTopic")

NoRepeat(seq) == \A i, j \in DOMAIN seq : i # j => seq[i] # seq[j]

\* C3: for every taxonomy table of N rows the edge table gephi_restructure returns
\* has exactly 2N rows, also when input rows repeat a pair; it returns for every
\* such table when DataFrame has append, and for the table of no rows in any case.
C3_EdgeCount ==
    /\ (op = "gephi_restructure" /\ (DataFrameHasAppend(pandas) \/ N = 0)
           => exc = NoException /\ Restructured)
    /\ (Restructured => Len(edges_df.rows) = 2 * N)

\* two input rows are equal, so both of their edges are produced twice
C3_Witness ==
    /\ op = "gephi_restructure" /\ Restructured
    /\ N = 2 /\ df.rows[1] = df.rows[2]
    /\ Len(edges_df.rows) = 4

\* C4: the edge table keeps the input row order: the i-th row (from 1) gives edge 2i-1
\* MacroTopic->Topic and edge 2i Topic->SubTopic, each of Type undirected.
C4_EdgeOrder ==
    Restructured =>
        \A i \in 1..N :
            /\ edges_df.rows[2 * i - 1]["Source"] = df.rows[i]["MacroTopic"]
            /\ edges_df.rows[2 * i - 1]["Target"] = df.rows[i]["Topic"]
            /\ edges_df.rows[2 * i - 1]["Type"] = "undirected"
            /\ edges_df.rows[2 * i]["Source"] = df.rows[i]["Topic"]
            /\ edges_df.rows[2 * i]["Target"] = df.rows[i]["SubTopic"]
            /\ edges_df.rows[2 * i]["Type"] = "undirected"

\* rows (A,B,C), (D,B,C) as (SubTopic, Topic, MacroTopic) give C->B, B->A, C->B, B->D
C4_Witness ==
    /\ op = "gephi_restructure" /\ Restructured
    /\ df.rows = << [SubTopic |-> "A", Topic |-> "B", MacroTopic |-> "C"],
                    [SubTopic |-> "D", Topic |-> "B", MacroTopic |-> "C"] >>
    /\ edges_df.rows = << Edge("C", "B"), Edge("B", "A"), Edge("C", "B"), Edge("B", "D") >>

\* C5: the node table holds every label at most once, and its labels are exactly the
\* values of the three input columns.
C5_NodeSet ==
    Restructured =>
        /\ NoRepeat(NodeLabels)
        /\ \A i \in DOMAIN df.rows : \A c \in {"SubTopic", "Topic", "MacroTopic"} :
               \E k \in DOMAIN NodeLabels : NodeLabels[k] = df.rows[i][c]
        /\ \A k \in DOMAIN NodeLabels :
               \E i \in DOMAIN df.rows : \E c \in {"SubTopic", "Topic", "MacroTopic"} :
                   NodeLabels[k] = df.rows[i][c]

\* a value that stands in two columns and two rows is one node
C5_Witness ==
    /\ op = "gephi_restructure" /\ Restructured
    /\ N = 2
    /\ df.rows[1]["Topic"] = "B" /\ df.rows[2]["MacroTopic"] = "B"
    /\ Len(nodes_df.rows) < 3 * N
    /\ \E k \in DOMAIN NodeLabels : NodeLabels[k] = "B"

\* C6 as stated: between 1 and 3N node records for every N, 3N only without repeats.
C6_Original ==
    Restructured =>
        /\ 1 <= Len(nodes_df.rows)
        /\ Len(nodes_df.rows) <= 3 * N
        /\ (Len(nodes_df.rows) = 3 * N => NoRepeat(AllInputValues))

\* C6 amended: no node record for N = 0, between 1 and 3N node records for N >= 1,
\* and 3N node records only if no value repeats across rows or columns.
C6_NodeCount ==
    Restructured =>
        /\ (N = 0 => Len(nodes_df.rows) = 0)
        /\ (N >= 1 => 1 <= Len(nodes_df.rows))
        /\ Len(nodes_df.rows) <= 3 * N
        /\ (Len(nodes_df.rows) = 3 * N => NoRepeat(AllInputValues))

\* the upper bound is reached by a row of three different values
C6_Witness ==
    /\ op = "gephi_restructure" /\ Restructured
    /\ N >= 1
    /\ Len(nodes_df.rows) = 3 * N

\* db_push has been called with the tables gephi_restructure returned
Pushed == op = "db_push" /\ Restructured

\* C10: every Source and Target of the edge table is a label of the node table of the
\* same call, and db_push issues an edge insert only after it has issued the insert
\* of every node row.
C10_EdgesReferToNodes ==
    /\ Restructured =>
          \A e \in DOMAIN edges_df.rows :
              /\ \E k \in DOMAIN NodeLabels : NodeLabels[k] = edges_df.rows[e]["Source"]
              /\ \E k \in DOMAIN NodeLabels : NodeLabels[k] = edges_df.rows[e]["Target"]
    /\ Pushed =>
          \A j \in DOMAIN log :
              log[j].stmt = "INSERT INTO GephiEdges" =>
                  /\ j > Len(nodes_df.rows)
                  /\ \A i \in DOMAIN nodes_df.rows :
                        /\ log[i].stmt = "INSERT INTO GephiNode"
                        /\ log[i].params = <<nodes_df.rows[i]["nodeLabel"]>>

\* an edge insert was issued after the inserts of three node rows
C10_Witness ==
    /\ Pushed
    /\ Len(nodes_df.rows) = 3
    /\ \E j \in DOMAIN log : log[j].stmt = "INSERT INTO GephiEdges"

---------------------------------------------------------------------------
(* Properties of db_push and db_rollback, under SpecPush *)

IsInsert(e) == e.stmt \in {"INSERT INTO GephiNode", "INSERT INTO GephiEdges"}

\* every row of both tables was inserted and no insert raised
EveryInsertSucceeded ==
    Cardinality({i \in DOMAIN log : IsInsert(log[i]) /\ log[i].outcome = "ok"})
        = Len(nodes_df.rows) + Len(edges_df.rows)

SomeInsertFailed == \E i \in DOMAIN log : IsInsert(log[i]) /\ log[i].outcome # "ok"

CommitIssued == \E i \in DOMAIN log : log[i].stmt = "COMMIT"

\* the rows of this push are in the destination tables
TransactionCommitted ==
    /\ Len(GephiNode) = Len(nodes_df.rows)
    /\ Len(GephiEdges) = Len(edges_df.rows)
    /\ \A i \in DOMAIN log : log[i].outcome = "ok"
    /\ CommitIssued

\* C1: db_push returns True only if every node insert and every edge insert
\* succeeded, and it returns True exactly when the transaction is committed: never
\* True without a commit, never a commit when some insert failed. The commit is
\* issued exactly when every insert succeeded (db_push still returns False, with
\* nothing committed, when the commit itself raises).
C1_TrueIffCommitted ==
    op = "db_push" =>
        /\ (ret = Bool(TRUE) => EveryInsertSucceeded)
        /\ (ret = Bool(TRUE) <=> TransactionCommitted)
        /\ (CommitIssued <=> EveryInsertSucceeded)
        /\ (~TransactionCommitted => GephiNode = <<>> /\ GephiEdges = <<>>)

\* node rows were inserted and committed, and db_push returned True
C1_Witness ==
    /\ op = "db_push"
    /\ ret = Bool(TRUE)
    /\ Len(nodes_df.rows) = 2
    /\ Len(GephiNode) = 2

\* C2: when an insert fails db_push returns False, lets no exception propagate and
\* issues no commit, and after the caller's rollback no row of the push is left in
\* GephiNode or GephiEdges.
C2_FailedInsertReturnsFalse ==
    /\ (op = "db_push" /\ SomeInsertFailed) =>
          /\ exc = NoException
          /\ ret = Bool(FALSE)
          /\ ~CommitIssued
          /\ GephiNode = <<>> /\ GephiEdges = <<>>
    /\ (op = "db_rollback" /\ LastOutcome(log) = "ok") =>
          /\ exc = NoException
          /\ txn = [nodes |-> <<>>, edges |-> <<>>]

---------------------------------------------------------------------------
(* Properties of the extraction side, under Spec *)

\* the taxonomy query selects no row
NoRowMatches ==
    ~ \E s \in Range(qnaSubtopic), t \in Range(Topic), m \in Range(Macrotopic) :
        /\ s.topicid = t.id /\ t.macrotopicid = m.id
        /\ s.Status = 0 /\ t.Status = 0 /\ m.Status = 0

QuerySucceeded == log # <<>> /\ log[1].outcome = "ok"

\* C7: when the taxonomy query matches no row db_pull returns an empty table, not
\* None, and gephi_restructure of that table returns an empty node table and an
\* empty edge table without raising.
C7_EmptyPullRestructures ==
    /\ (op = "db_pull" /\ QuerySucceeded /\ NoRowMatches) =>
          /\ IsDataFrame(df)
          /\ df.rows = <<>>
    /\ (op = "gephi_restructure" /\ NoRowMatches) =>
          /\ exc = NoException
          /\ IsDataFrame(nodes_df) /\ nodes_df.rows = <<>>
          /\ IsDataFrame(edges_df) /\ edges_df.rows = <<>>

\* the (SubTopic, Topic, MacroTopic) values of row i of the pulled table, by position
PulledRow(i) == <<df.rows[i][df.columns[1]], df.rows[i][df.columns[2]], df.rows[i][df.columns[3]]>>

\* a sub-topic joins its topic and that topic its macro-topic, all three of Status 0,
\* under the names a, b, c
ActiveChain(a, b, c) ==
    \E s \in Range(qnaSubtopic), t \in Range(Topic), m \in Range(Macrotopic) :
        /\ s.topicid = t.id /\ t.macrotopicid = m.id
        /\ s.Status = 0 /\ t.Status = 0 /\ m.Status = 0
        /\ s.name = a /\ t.name = b /\ m.name = c

\* the sub-topics that have an active chain, one result row each (ids are keys)
ActiveSubtopics ==
    {i \in DOMAIN qnaSubtopic :
        \E t \in Range(Topic), m \in Range(Macrotopic) :
            /\ qnaSubtopic[i].topicid = t.id /\ t.macrotopicid = m.id
            /\ qnaSubtopic[i].Status = 0 /\ t.Status = 0 /\ m.Status = 0}

AllNames == SubNames \cup TopicNames \cup MacroNames

\* C8: the table db_pull returns holds a row (SubTopic, Topic, MacroTopic) exactly
\* when a sub-topic joins to its topic by topicid and that topic to its macro-topic
\* by macrotopicid and all three have Status 0, one row for each such sub-topic; a
\* chain with a non-zero Status gives no row.
C8_PullIsActiveJoin ==
    (op = "db_pull" /\ IsDataFrame(df)) =>
        /\ \A a, b, c \in AllNames :
              (\E i \in DOMAIN df.rows : PulledRow(i) = <<a, b, c>>) <=> ActiveChain(a, b, c)
        /\ Len(df.rows) = Cardinality(ActiveSubtopics)

\* one chain is active and pulled; another sub-topic and the macro-topic are active
\* but its topic is retired, and no row stands for it
C8_Witness ==
    /\ op = "db_pull" /\ IsDataFrame(df)
    /\ Len(df.rows) = 1
    /\ \E s \in Range(qnaSubtopic), t \in Range(Topic), m \in Range(Macrotopic) :
          /\ s.topicid = t.id /\ t.macrotopicid = m.id
          /\ s.Status = 0 /\ t.Status = 1 /\ m.Status = 0
          /\ \A i \in DOMAIN df.rows : PulledRow(i) # <<s.name, t.name, m.name>>

DatabaseCalls == {"db_connect", "get_db_tables", "get_db_version", "db_pull", "db_rollback"}

\* C9: a database failure never raises out of db_connect, get_db_tables,
\* get_db_version, db_pull or db_rollback: the first four return None (and the
\* caller holds no connection after a failed db_connect), db_rollback returns
\* normally, and each has tried its one database call once, with no retry.
C9_FailuresReturnNone ==
    op \in DatabaseCalls =>
        /\ exc = NoException
        /\ Len(log) = 1
        /\ (log[1].outcome # "ok" /\ op # "db_rollback") => ret = None
        /\ (log[1].outcome # "ok" /\ op = "db_connect") => conn = None
        /\ (log[1].outcome = "ok" /\ op # "db_rollback") => ret # None
        /\ op = "db_rollback" => ret = None

\* the rollback itself failed and db_rollback returned normally
C9_Witness ==
    /\ op = "db_rollback"
    /\ log[1].outcome = "psycopg2.Error"
    /\ exc = NoException
    /\ ret = None

===========================================================================
